---- MODULE Spec2Model ----
(***************************************************************************)
(* cryptotax_summary: calculate_crypto_summary reads a delimited file,     *)
(* reconciles its header against required_columns, classifies every row as *)
(* Short-term or Long-term and sums gains, proceeds and cost basis.        *)
(*                                                                         *)
(* Text is modelled as a sequence of tokens.  A token is a piece of text,  *)
(* a whitespace character, a delimiter character, a number literal or a    *)
(* date literal yyyymmdd standing for the text 'yyyy-mm-dd'.  A line of the *)
(* file is a sequence of tokens, a file a sequence of lines.               *)
(***************************************************************************)
EXTENDS Integers, Sequences, FiniteSets, TLC

VARIABLES
    input,            \* how the file on disk was written (never read by the program)
    file,             \* the lines of the file at csv_path
    pc,               \* position in calculate_crypto_summary
    df,               \* the DataFrame: [columns, rows]
    column_mapping,   \* per raw column: the standard name it maps to, or None
    missing,          \* the standard names no raw column matches
    mode,             \* "days" or "dates": how 'Holding period' was filled
    holding,          \* df['Holding period'], one label per row
    result,           \* the returned dict
    err               \* the exception raised, or None

vars == <<input, file, pc, df, column_mapping, missing, mode, holding, result, err>>

None == "None"

----------------------------------------------------------------------------
(* Tokens *)

Txt(s) == [k |-> "txt", s |-> s, n |-> 0]
Ws == [k |-> "ws", s |-> " ", n |-> 0]
Sep(d) == [k |-> "sep", s |-> d, n |-> 0]
Num(v) == [k |-> "num", s |-> "", n |-> v]
Date(v) == [k |-> "date", s |-> "", n |-> v]

Max(a, b) == IF a >= b THEN a ELSE b

\* str.lower() on the header texts that occur; text without capitals is unchanged
LowerTable ==
    [s \in {"Transaction Type", "Trade Type", "Type", "TRADE TYPE", "TYPE",
            "Transaction ID", "Trade ID", "ID", "Id",
            "Tax lot ID", "Lot ID", "Tax Lot", "LOT ID",
            "Asset name", "Currency", "Symbol", "SYMBOL",
            "Amount", "Quantity", "QUANTITY",
            "Date Acquired", "Acquisition Date", "Bought Date", "BOUGHT DATE",
            "Cost basis (USD)", "Cost Basis", "Purchase Price (USD)", "COST BASIS",
            "Date of Disposition", "Disposition Date", "Sold Date", "SOLD DATE",
            "Proceeds (USD)", "Sale Proceeds", "Sale Price (USD)", "SALE PROCEEDS",
            "Gains (Losses) (USD)", "Gain/Loss (USD)", "Profit/Loss (USD)",
            "GAIN/LOSS (USD)",
            "Data source", "Source", "Exchange", "EXCHANGE",
            "Holding period (Days)", "HOLDING PERIOD (DAYS)", "Report"} |->
        CASE s \in {"Transaction Type"} -> "transaction type"
          [] s \in {"Trade Type", "TRADE TYPE"} -> "trade type"
          [] s \in {"Type", "TYPE"} -> "type"
          [] s \in {"Transaction ID"} -> "transaction id"
          [] s \in {"Trade ID"} -> "trade id"
          [] s \in {"ID", "Id"} -> "id"
          [] s \in {"Tax lot ID"} -> "tax lot id"
          [] s \in {"Lot ID", "LOT ID"} -> "lot id"
          [] s \in {"Tax Lot"} -> "tax lot"
          [] s \in {"Asset name"} -> "asset name"
          [] s \in {"Currency"} -> "currency"
          [] s \in {"Symbol", "SYMBOL"} -> "symbol"
          [] s \in {"Amount"} -> "amount"
          [] s \in {"Quantity", "QUANTITY"} -> "quantity"
          [] s \in {"Date Acquired"} -> "date acquired"
          [] s \in {"Acquisition Date"} -> "acquisition date"
          [] s \in {"Bought Date", "BOUGHT DATE"} -> "bought date"
          [] s \in {"Cost basis (USD)"} -> "cost basis (usd)"
          [] s \in {"Cost Basis", "COST BASIS"} -> "cost basis"
          [] s \in {"Purchase Price (USD)"} -> "purchase price (usd)"
          [] s \in {"Date of Disposition"} -> "date of disposition"
          [] s \in {"Disposition Date"} -> "disposition date"
          [] s \in {"Sold Date", "SOLD DATE"} -> "sold date"
          [] s \in {"Proceeds (USD)"} -> "proceeds (usd)"
          [] s \in {"Sale Proceeds", "SALE PROCEEDS"} -> "sale proceeds"
          [] s \in {"Sale Price (USD)"} -> "sale price (usd)"
          [] s \in {"Gains (Losses) (USD)"} -> "gains (losses) (usd)"
          [] s \in {"Gain/Loss (USD)", "GAIN/LOSS (USD)"} -> "gain/loss (usd)"
          [] s \in {"Profit/Loss (USD)"} -> "profit/loss (usd)"
          [] s \in {"Data source"} -> "data source"
          [] s \in {"Source"} -> "source"
          [] s \in {"Exchange", "EXCHANGE"} -> "exchange"
          [] s \in {"Holding period (Days)", "HOLDING PERIOD (DAYS)"} ->
                 "holding period (days)"
          [] s \in {"Report"} -> "report"]

Lower(s) == IF s \in DOMAIN LowerTable THEN LowerTable[s] ELSE s

\* str.lower() of a token sequence
LowerSeq(t) ==
    [i \in 1..Len(t) |-> IF t[i].k = "txt" THEN Txt(Lower(t[i].s)) ELSE t[i]]

RECURSIVE LStrip(_)
LStrip(t) == IF t # <<>> /\ Head(t).k = "ws" THEN LStrip(Tail(t)) ELSE t

RECURSIVE RStrip(_)
RStrip(t) ==
    IF t # <<>> /\ t[Len(t)].k = "ws" THEN RStrip(SubSeq(t, 1, Len(t) - 1)) ELSE t

\* str.strip()
Strip(t) == RStrip(LStrip(t))

\* the column compared as written but for surrounding blanks
NormalizeCaseSensitive(t) == Strip(t)

\* column = str(column).strip().lower()
Normalize(t) == LowerSeq(Strip(t))

----------------------------------------------------------------------------
(* required_columns: standard names and their aliases, in dict order *)

required_columns ==
    << [std |-> "Transaction Type",
        aliases |-> <<"Transaction Type", "Trade Type", "Type">>],
       [std |-> "Transaction ID",
        aliases |-> <<"Transaction ID", "Trade ID", "ID">>],
       [std |-> "Tax lot ID",
        aliases |-> <<"Tax lot ID", "Lot ID", "Tax Lot">>],
       [std |-> "Asset name",
        aliases |-> <<"Asset name", "Currency", "Symbol">>],
       [std |-> "Amount",
        aliases |-> <<"Amount", "Quantity">>],
       [std |-> "Date Acquired",
        aliases |-> <<"Date Acquired", "Acquisition Date", "Bought Date">>],
       [std |-> "Cost basis (USD)",
        aliases |-> <<"Cost basis (USD)", "Cost Basis", "Purchase Price (USD)">>],
       [std |-> "Date of Disposition",
        aliases |-> <<"Date of Disposition", "Disposition Date", "Sold Date">>],
       [std |-> "Proceeds (USD)",
        aliases |-> <<"Proceeds (USD)", "Sale Proceeds", "Sale Price (USD)">>],
       [std |-> "Gains (Losses) (USD)",
        aliases |-> <<"Gains (Losses) (USD)", "Gain/Loss (USD)", "Profit/Loss (USD)">>],
       [std |-> "Data source",
        aliases |-> <<"Data source", "Source", "Exchange">>] >>

HoldingDaysName == "Holding period (Days)"

\* map_column_name(column, column_mappings): the first standard name one of
\* whose aliases equals the normalised column, or None
RECURSIVE map_column_name(_, _)
map_column_name(column, column_mappings) ==
    IF column_mappings = <<>> THEN None
    ELSE LET m == Head(column_mappings)
         IN  IF \E a \in 1..Len(m.aliases) :
                    Normalize(column) = Normalize(<<Txt(m.aliases[a])>>)
             THEN m.std
             ELSE map_column_name(column, Tail(column_mappings))

----------------------------------------------------------------------------
(* pd.read_csv *)

Comma == ","
Tab == "\t"
Semicolon == ";"

\* the fields of one line under delimiter d
RECURSIVE SplitFrom(_, _, _, _, _)
SplitFrom(line, d, i, cur, acc) ==
    IF i > Len(line) THEN Append(acc, cur)
    ELSE IF line[i] = Sep(d)
         THEN SplitFrom(line, d, i + 1, <<>>, Append(acc, cur))
         ELSE SplitFrom(line, d, i + 1, Append(cur, line[i]), acc)

Split(line, d) == SplitFrom(line, d, 1, <<>>, <<>>)

\* duplicate header names get the suffix .1, .2, ...
MangleDupes(header) ==
    [i \in 1..Len(header) |->
        LET k == Cardinality({j \in 1..(i - 1) : header[j] = header[i]})
        IN  IF k = 0 THEN header[i]
            ELSE Append(header[i], [k |-> "txt", s |-> ".", n |-> k])]

\* pd.read_csv(csv_path, sep=d): blank lines are skipped, the first line left is
\* the header; a first data line longer than the header makes the leading fields
\* an index; a later line with more fields than expected is a ParserError; a
\* shorter line is padded with missing values.
ReadCsv(f, d) ==
    LET lines == SelectSeq(f, LAMBDA l : l # <<>>)
    IN  IF lines = <<>>
        THEN [err |-> "EmptyDataError", columns |-> <<>>, rows |-> <<>>]
        ELSE LET header == Split(lines[1], d)
                 data == [i \in 1..(Len(lines) - 1) |-> Split(lines[i + 1], d)]
                 nh == Len(header)
                 expected == IF data = <<>> THEN nh ELSE Max(nh, Len(data[1]))
                 leading == expected - nh
             IN  IF \E i \in 2..Len(data) : Len(data[i]) > expected
                 THEN [err |-> "ParserError", columns |-> <<>>, rows |-> <<>>]
                 ELSE [err |-> None,
                       columns |-> MangleDupes(header),
                       rows |-> [i \in 1..Len(data) |->
                                   [j \in 1..nh |->
                                      IF j + leading <= Len(data[i])
                                      THEN data[i][j + leading] ELSE <<>>]]]

\* for delimiter in [',', '\t', ';']: the first that raises no ParserError
RECURSIVE TryDelimiters(_, _)
TryDelimiters(f, ds) ==
    IF ds = <<>>
    THEN [err |-> "ValueError: Invalid CSV format", columns |-> <<>>, rows |-> <<>>]
    ELSE LET r == ReadCsv(f, Head(ds))
         IN  IF r.err = "ParserError" THEN TryDelimiters(f, Tail(ds)) ELSE r

\* lines 69-82 and 154-157: read with the default comma; only a ParserError
\* leads to the delimiter loop
ReadFile(f) ==
    LET r0 == ReadCsv(f, Comma)
        r == IF r0.err = "ParserError"
             THEN TryDelimiters(f, <<Comma, Tab, Semicolon>>)
             ELSE r0
    IN  IF r.err = "EmptyDataError"
        THEN [r EXCEPT !.err = "ValueError: The CSV file is empty"]
        ELSE r

----------------------------------------------------------------------------
(* Column mapping, lines 99-119 *)

Range(q) == {q[i] : i \in 1..Len(q)}

\* the inner loop of lines 102-105: the first standard column csv_col matches
RECURSIVE FirstStd(_, _)
FirstStd(csv_col, reqs) ==
    IF reqs = <<>> THEN None
    ELSE IF map_column_name(csv_col, <<Head(reqs)>>) # None
         THEN Head(reqs).std
         ELSE FirstStd(csv_col, Tail(reqs))

\* column_mapping, kept per column position (raw names are unique after
\* MangleDupes); None where the dict has no key
MapColumns(columns) ==
    [i \in 1..Len(columns) |-> FirstStd(columns[i], required_columns)]

\* a required column counts as present only under its standard name
MissingColumnsExact(columns, mapping) ==
    LET miss == SelectSeq(required_columns,
                          LAMBDA m : ~\E i \in 1..Len(columns) : columns[i] = <<Txt(m.std)>>)
    IN  [i \in 1..Len(miss) |-> miss[i].std]

\* lines 111-114
MissingColumns(columns, mapping) ==
    LET present(m) ==
            \E i \in 1..Len(columns) :
                \/ m.std \in (Range(mapping) \ {None})
                \/ map_column_name(columns[i], <<m>>) # None
        miss == SelectSeq(required_columns, LAMBDA m : ~present(m))
    IN  [i \in 1..Len(miss) |-> miss[i].std]

\* df.rename(columns=column_mapping)
Rename(columns, mapping) ==
    [i \in 1..Len(columns) |->
        IF mapping[i] # None THEN <<Txt(mapping[i])>> ELSE columns[i]]

\* the positions of the columns called name, in order
Positions(columns, name) ==
    LET RECURSIVE pos(_)
        pos(i) == IF i > Len(columns) THEN <<>>
                  ELSE IF columns[i] = <<Txt(name)>> THEN <<i>> \o pos(i + 1)
                  ELSE pos(i + 1)
    IN  pos(1)

----------------------------------------------------------------------------
(* Dates: pd.to_datetime(..., format='%Y-%m-%d') and datetime.date arithmetic *)

YearOf(v) == v \div 10000
MonthOf(v) == (v \div 100) % 100
DayOf(v) == v % 100

IsLeap(y) == y % 4 = 0 /\ (y % 100 # 0 \/ y % 400 = 0)

DaysInMonth(y, m) ==
    IF m = 2 THEN (IF IsLeap(y) THEN 29 ELSE 28)
    ELSE IF m \in {4, 6, 9, 11} THEN 30 ELSE 31

DaysBeforeYear(y) ==
    (y - 1) * 365 + (y - 1) \div 4 - (y - 1) \div 100 + (y - 1) \div 400

RECURSIVE DaysBeforeMonth(_, _)
DaysBeforeMonth(y, m) ==
    IF m <= 1 THEN 0 ELSE DaysBeforeMonth(y, m - 1) + DaysInMonth(y, m - 1)

\* date.toordinal()
Ordinal(v) == DaysBeforeYear(YearOf(v)) + DaysBeforeMonth(YearOf(v), MonthOf(v)) + DayOf(v)

ValidDate(v) ==
    /\ YearOf(v) >= 1
    /\ MonthOf(v) \in 1..12
    /\ DayOf(v) \in 1..DaysInMonth(YearOf(v), MonthOf(v))

\* pd.to_datetime of one cell: a missing value gives NaT, a well-formed date
\* its ordinal, anything else raises
ToDatetime(cell) ==
    IF cell = <<>> THEN [raises |-> FALSE, nat |-> TRUE, ord |-> 0]
    ELSE IF Len(cell) = 1 /\ cell[1].k = "date" /\ ValidDate(cell[1].n)
         THEN [raises |-> FALSE, nat |-> FALSE, ord |-> Ordinal(cell[1].n)]
         ELSE [raises |-> TRUE, nat |-> FALSE, ord |-> 0]

LongTermDays == 365

ShortTerm == "Short-term"
LongTerm == "Long-term"

\* the boundary drawn at <= 365
classify_holding_period_le(date_acquired_str, date_disposed_str) ==
    IF Len(date_acquired_str) # 1 \/ Len(date_disposed_str) # 1 THEN None
    ELSE LET date_acquired == ToDatetime(date_acquired_str[1])
             date_disposed == ToDatetime(date_disposed_str[1])
         IN  IF date_acquired.raises \/ date_disposed.raises THEN None
             ELSE IF date_acquired.nat /\ date_disposed.nat THEN LongTerm
             ELSE IF date_acquired.nat \/ date_disposed.nat THEN None
             ELSE IF date_disposed.ord - date_acquired.ord <= LongTermDays
                  THEN ShortTerm ELSE LongTerm

\* classify_holding_period(date_acquired_str, date_disposed_str).  The arguments
\* are what row['Date Acquired'] and row['Date of Disposition'] select: one cell
\* each, or several when the renamed frame has that label more than once (then
\* .date() raises).  Any exception is caught and None returned.  NaT - NaT is
\* NaT, whose .days is nan, and nan < 365 is False; a date minus NaT raises.
classify_holding_period(date_acquired_str, date_disposed_str) ==
    IF Len(date_acquired_str) # 1 \/ Len(date_disposed_str) # 1 THEN None
    ELSE LET date_acquired == ToDatetime(date_acquired_str[1])
             date_disposed == ToDatetime(date_disposed_str[1])
         IN  IF date_acquired.raises \/ date_disposed.raises THEN None
             ELSE IF date_acquired.nat /\ date_disposed.nat THEN LongTerm
             ELSE IF date_acquired.nat \/ date_disposed.nat THEN None
             ELSE IF date_disposed.ord - date_acquired.ord < LongTermDays
                  THEN ShortTerm ELSE LongTerm

----------------------------------------------------------------------------
(* Classification, lines 121-136 *)

\* pd.to_numeric(cell, errors='coerce')
ToNumeric(cell) ==
    IF Len(cell) = 1 /\ cell[1].k = "num"
    THEN [nan |-> FALSE, v |-> cell[1].n]
    ELSE [nan |-> TRUE, v |-> 0]

\* lambda days: 'Short-term' if pd.notna(days) and days < 365 else 'Long-term'
DaysLabel(days) ==
    IF ~days.nan /\ days.v < LongTermDays THEN ShortTerm ELSE LongTerm

\* the cells of a row under the columns called name
Cells(columns, row, name) ==
    LET p == Positions(columns, name) IN [k \in 1..Len(p) |-> row[p[k]]]

\* 'Holding period (Days)' in df.columns and not df[...].isna().all()
UseDays(columns, rows) ==
    /\ Positions(columns, HoldingDaysName) # <<>>
    /\ \E i \in 1..Len(rows) :
           ~ToNumeric(Cells(columns, rows[i], HoldingDaysName)[1]).nan

\* the choice between day count and dates made row by row
ClassifyRowPerRow(useDays, columns, row) ==
    IF useDays /\ ~ToNumeric(Cells(columns, row, HoldingDaysName)[1]).nan
    THEN [label |-> DaysLabel(ToNumeric(Cells(columns, row, HoldingDaysName)[1])),
          by |-> "days"]
    ELSE [label |-> classify_holding_period(
                        Cells(columns, row, "Date Acquired"),
                        Cells(columns, row, "Date of Disposition")),
          by |-> "dates"]

\* the label of one row and the input it was taken from
ClassifyRow(useDays, columns, row) ==
    IF useDays
    THEN [label |-> DaysLabel(ToNumeric(Cells(columns, row, HoldingDaysName)[1])),
          by |-> "days"]
    ELSE [label |-> classify_holding_period(
                        Cells(columns, row, "Date Acquired"),
                        Cells(columns, row, "Date of Disposition")),
          by |-> "dates"]

Classify(columns, rows) ==
    LET useDays == UseDays(columns, rows)
    IN  IF /\ ~useDays
           /\ \/ Positions(columns, "Date Acquired") = <<>>
              \/ Positions(columns, "Date of Disposition") = <<>>
        THEN [err |-> "ValueError: Missing dates", mode |-> "dates", holding |-> <<>>]
        ELSE [err |-> None,
              mode |-> IF useDays THEN "days" ELSE "dates",
              holding |-> [i \in 1..Len(rows) |-> ClassifyRow(useDays, columns, rows[i])]]

----------------------------------------------------------------------------
(* Aggregation, lines 138-152 *)

\* the value pandas sums for a cell: missing values are skipped
\* (SumOver adds column p over the rows whose entry in keep is TRUE)
NumOf(cell) == IF Len(cell) = 1 /\ cell[1].k = "num" THEN cell[1].n ELSE 0

RECURSIVE SumOver(_, _, _)
SumOver(rows, p, keep) ==
    IF rows = <<>> THEN 0
    ELSE (IF keep[Len(rows)] THEN NumOf(rows[Len(rows)][p]) ELSE 0)
         + SumOver(SubSeq(rows, 1, Len(rows) - 1), p, keep)

\* the gains summed over all rows, whatever their bucket
SummaryGetAll(columns, rows, hold, bucket) ==
    LET p == Positions(columns, "Gains (Losses) (USD)")
    IN  IF Len(p) = 1 THEN SumOver(rows, p[1], [i \in 1..Len(rows) |-> TRUE]) ELSE 0

\* df.groupby('Holding period')['Gains (Losses) (USD)'].sum().to_dict() followed
\* by .get(bucket, 0): rows labelled None belong to no group; a bucket without
\* rows is no key; when the label 'Gains (Losses) (USD)' occurs twice the dict
\* is keyed by column label and has no bucket key at all
SummaryGet(columns, rows, hold, bucket) ==
    LET p == Positions(columns, "Gains (Losses) (USD)")
    IN  IF Len(p) = 1 /\ \E i \in 1..Len(rows) : hold[i].label = bucket
        THEN SumOver(rows, p[1], [i \in 1..Len(rows) |-> hold[i].label = bucket])
        ELSE 0

\* df[name].sum(): a number when one column has the label, else one sum per
\* column of that label
ColumnSum(columns, rows, name) ==
    LET p == Positions(columns, name)
    IN  [scalar |-> Len(p) = 1,
         vals |-> [k \in 1..Len(p) |-> SumOver(rows, p[k], [i \in 1..Len(rows) |-> TRUE])]]

Aggregate(columns, rows, hold) ==
    [short_term_gains_losses |-> SummaryGet(columns, rows, hold, ShortTerm),
     long_term_gains_losses |-> SummaryGet(columns, rows, hold, LongTerm),
     total_proceeds |-> ColumnSum(columns, rows, "Proceeds (USD)"),
     total_cost_basis |-> ColumnSum(columns, rows, "Cost basis (USD)")]

----------------------------------------------------------------------------
(* The whole of calculate_crypto_summary on a file, as one result *)

NoResult ==
    [short_term_gains_losses |-> 0, long_term_gains_losses |-> 0,
     total_proceeds |-> [scalar |-> TRUE, vals |-> <<>>],
     total_cost_basis |-> [scalar |-> TRUE, vals |-> <<>>]]

Raised(e, miss) == [status |-> "error", err |-> e, missing |-> miss, result |-> NoResult]

MissingError == "ValueError: Missing required columns"

calculate_crypto_summary(f) ==
    LET r == ReadFile(f)
    IN  IF r.err # None THEN Raised(r.err, <<>>)
        ELSE LET m == MapColumns(r.columns)
                 miss == MissingColumns(r.columns, m)
                 cols == Rename(r.columns, m)
                 c == Classify(cols, r.rows)
             IN  IF miss # <<>> THEN Raised(MissingError, miss)
                 ELSE IF c.err # None THEN Raised(c.err, <<>>)
                 ELSE [status |-> "done", err |-> None, missing |-> <<>>,
                       result |-> Aggregate(cols, r.rows, c.holding)]

----------------------------------------------------------------------------
(* The files the model runs on *)

MaxRows == 2
MaxLead == 2

RECURSIVE Join(_, _)
Join(fields, d) ==
    IF fields = <<>> THEN <<>>
    ELSE IF Len(fields) = 1 THEN fields[1]
    ELSE fields[1] \o <<Sep(d)>> \o Join(Tail(fields), d)

\* the cell a row holds under a header entry; a second column of the same field
\* (alt) holds other values than the first
CellOf(h, r) ==
    CASE h.field = "Transaction Type" -> <<Txt("Sale")>>
      [] h.field = "Transaction ID" -> <<Txt("T1")>>
      [] h.field = "Tax lot ID" -> <<Txt("A")>>
      [] h.field = "Asset name" -> <<Txt("BTC")>>
      [] h.field = "Amount" -> <<Num(1)>>
      [] h.field = "Date Acquired" -> IF h.alt THEN <<Date(20200101)>> ELSE r.acq
      [] h.field = "Cost basis (USD)" -> <<Num(IF h.alt THEN r.cost + 1 ELSE r.cost)>>
      [] h.field = "Date of Disposition" -> IF h.alt THEN <<Date(20250601)>> ELSE r.disp
      [] h.field = "Proceeds (USD)" ->
             <<Num(IF h.alt THEN r.proceeds + 1 ELSE r.proceeds)>>
      [] h.field = "Gains (Losses) (USD)" -> <<Num(IF h.alt THEN r.gain + 1 ELSE r.gain)>>
      [] h.field = "Data source" -> r.source
      [] h.field = HoldingDaysName -> r.days
      [] OTHER -> <<Txt("x")>>

\* the lines of the file written from in
FileOf(in) ==
    in.lead
    \o << Join([j \in 1..Len(in.header) |-> in.header[j].name], in.delim) >>
    \o [i \in 1..Len(in.rows) |->
           Join([j \in 1..Len(in.header) |-> CellOf(in.header[j], in.rows[i])],
                in.delim)]

Col(f, name) == [field |-> f, name |-> name, alt |-> FALSE]

CanonicalHeader ==
    [j \in 1..Len(required_columns) |->
        Col(required_columns[j].std, <<Txt(required_columns[j].std)>>)]

\* the header with the day-count column put before 'Data source', as in the tests
WithDays(header, name) ==
    SubSeq(header, 1, Len(header) - 1)
    \o <<Col(HoldingDaysName, name)>>
    \o <<header[Len(header)]>>

Money ==
    << [gain |-> 10000, proceeds |-> 50000, cost |-> 40000],
       [gain |-> 500, proceeds |-> 2500, cost |-> 2000],
       [gain |-> -300, proceeds |-> 700, cost |-> 1000],
       [gain |-> 7, proceeds |-> 8, cost |-> 1] >>

DayCells == {<<Num(364)>>, <<Num(365)>>, <<>>, <<Txt("n/a")>>}

\* acquisition and disposition dates with the number of days between them
\* (gap, -1 when there is none to speak of)
DatePairs ==
    { [acq |-> <<Date(20240101)>>, disp |-> <<Date(20241231)>>, gap |-> 365],
      [acq |-> <<Date(20240102)>>, disp |-> <<Date(20241231)>>, gap |-> 364],
      [acq |-> <<Date(20230301)>>, disp |-> <<Date(20240229)>>, gap |-> 365],
      [acq |-> <<Date(20230229)>>, disp |-> <<Date(20241231)>>, gap |-> -1],
      [acq |-> <<>>, disp |-> <<>>, gap |-> -1] }

MkRow(i, days, dp, source) ==
    [days |-> days, acq |-> dp.acq, disp |-> dp.disp, gap |-> dp.gap,
     gain |-> Money[i].gain, proceeds |-> Money[i].proceeds, cost |-> Money[i].cost,
     source |-> source]

\* the two rows of the tests, and a row whose day count and dates disagree
TestRows ==
    << MkRow(1, <<Num(365)>>,
             [acq |-> <<Date(20240101)>>, disp |-> <<Date(20241231)>>, gap |-> 365],
             <<Txt("Coinbase")>>),
       MkRow(2, <<Num(183)>>,
             [acq |-> <<Date(20240601)>>, disp |-> <<Date(20241231)>>, gap |-> 213],
             <<Txt("Coinbase")>>) >>

OtherRows ==
    << MkRow(3, <<Num(364)>>,
             [acq |-> <<Date(20240101)>>, disp |-> <<Date(20241231)>>, gap |-> 365],
             <<Txt("Kraken")>>) >>

RowSets == {TestRows, OtherRows}

DaysHeaders == {<<Txt(HoldingDaysName)>>, <<Txt("HOLDING PERIOD (DAYS)")>>}

Headers(withDays) ==
    {CanonicalHeader} \cup {WithDays(CanonicalHeader, n) : n \in withDays}

MkInput(delim, lead, header, rows) ==
    [delim |-> delim, lead |-> lead, header |-> header, rows |-> rows]

\* comma-delimited files with the canonical header and every combination of
\* day-count cells and dates
EngineInputs ==
    { MkInput(Comma, <<>>, h, rows) :
        h \in Headers(DaysHeaders),
        rows \in UNION { { [i \in 1..n |-> MkRow(i, c[i][1], c[i][2], <<Txt("Coinbase")>>)] :
                             c \in [1..n -> DayCells \X DatePairs] } :
                         n \in 1..MaxRows } }

\* one spelling in capitals per required field
UpperVariant ==
    << "TRADE TYPE", "Id", "LOT ID", "SYMBOL", "QUANTITY", "BOUGHT DATE",
       "COST BASIS", "SOLD DATE", "SALE PROCEEDS", "GAIN/LOSS (USD)", "EXCHANGE" >>

\* header texts for required field j: every alias as written, padded with
\* blanks and in lower case, and one alias in capitals
Variants(j) ==
    UNION { { <<Txt(required_columns[j].aliases[a])>>,
              <<Ws, Txt(required_columns[j].aliases[a]), Ws>>,
              <<Txt(Lower(required_columns[j].aliases[a]))>> } :
            a \in 1..Len(required_columns[j].aliases) }
    \cup { <<Ws, Ws, Txt(UpperVariant[j])>> }

Replace(header, j, col) == [header EXCEPT ![j] = col]

Remove(header, j) == SubSeq(header, 1, j - 1) \o SubSeq(header, j + 1, Len(header))

Fields == 1..Len(required_columns)

\* the canonical header with one required column renamed, or with one or two
\* required columns removed
AliasHeaders ==
    {CanonicalHeader}
    \cup UNION { { Replace(CanonicalHeader, j, Col(required_columns[j].std, v)) :
                   v \in Variants(j) } : j \in Fields }
    \cup { Remove(CanonicalHeader, j) : j \in Fields }
    \cup { Remove(Remove(CanonicalHeader, j), 1) : j \in Fields \ {1} }
    \cup { Remove(Remove(CanonicalHeader, Len(required_columns)), j) :
             j \in Fields \ {Len(required_columns)} }

AliasInputs ==
    { MkInput(Comma, <<>>, h, rows) :
        h \in AliasHeaders \cup { WithDays(g, <<Txt(HoldingDaysName)>>) : g \in AliasHeaders },
        rows \in RowSets }

\* the canonical header with a second column for one required field, under
\* another alias (before or after the first) or under the very same text
TiesHeaders ==
    UNION { { CanonicalHeader
              \o <<[field |-> required_columns[j].std,
                    name |-> <<Txt(required_columns[j].aliases[a])>>,
                    alt |-> TRUE]>> :
              a \in 1..Len(required_columns[j].aliases) }
            \cup
            { <<[field |-> required_columns[j].std,
                 name |-> <<Txt(required_columns[j].aliases[a])>>,
                 alt |-> TRUE]>>
              \o CanonicalHeader :
              a \in 2..Len(required_columns[j].aliases) } :
            j \in Fields }

TiesInputs ==
    { MkInput(Comma, <<>>, h, rows) :
        h \in TiesHeaders \cup { WithDays(g, <<Txt(HoldingDaysName)>>) : g \in TiesHeaders },
        rows \in RowSets }

Blank == <<>>
Title == <<Txt("Report")>>

LeadingLines == UNION { [1..k -> {Blank, Title}] : k \in 0..MaxLead }

\* rows with a comma inside the 'Data source' text of row k (no row when k = 0)
Embed(rows, k) ==
    [i \in 1..Len(rows) |->
        IF i = k THEN [rows[i] EXCEPT !.source = <<Txt("Acme"), Sep(Comma), Txt("Inc")>>]
        ELSE rows[i]]

\* the canonical header and the test rows written with each delimiter, after
\* blank or title lines
ReaderInputs ==
    UNION { { MkInput(d, lead, h, Embed(rows, k)) :
                d \in {Comma, Tab, Semicolon},
                lead \in LeadingLines,
                h \in Headers({<<Txt(HoldingDaysName)>>}),
                k \in 0..Len(rows) } :
            rows \in RowSets }

----------------------------------------------------------------------------
(* calculate_crypto_summary, step by step *)

Start(inputs) ==
    /\ input \in inputs
    /\ file = FileOf(input)
    /\ pc = "read"
    /\ df = [columns |-> <<>>, rows |-> <<>>]
    /\ column_mapping = <<>>
    /\ missing = <<>>
    /\ mode = None
    /\ holding = <<>>
    /\ result = NoResult
    /\ err = None

InitEngine == Start(EngineInputs)
InitAlias == Start(AliasInputs)
InitHeader == Start(AliasInputs \cup TiesInputs)
InitReader == Start(ReaderInputs)
Init == Start(EngineInputs \cup AliasInputs \cup TiesInputs \cup ReaderInputs)

\* lines 69-82: read the file
Read ==
    /\ pc = "read"
    /\ LET r == ReadFile(file)
       IN  IF r.err # None
           THEN /\ pc' = "error"
                /\ err' = r.err
                /\ UNCHANGED df
           ELSE /\ pc' = "map"
                /\ df' = [columns |-> r.columns, rows |-> r.rows]
                /\ UNCHANGED err
    /\ UNCHANGED <<input, file, column_mapping, missing, mode, holding, result>>

\* lines 84-119: map the columns, fail on missing ones, rename
Reconcile ==
    /\ pc = "map"
    /\ column_mapping' = MapColumns(df.columns)
    /\ missing' = MissingColumns(df.columns, column_mapping')
    /\ IF missing' # <<>>
       THEN /\ pc' = "error"
            /\ err' = MissingError
            /\ UNCHANGED df
       ELSE /\ pc' = "classify"
            /\ df' = [df EXCEPT !.columns = Rename(df.columns, column_mapping')]
            /\ UNCHANGED err
    /\ UNCHANGED <<input, file, mode, holding, result>>

\* lines 121-136: fill df['Holding period']
ClassifyRows ==
    /\ pc = "classify"
    /\ LET c == Classify(df.columns, df.rows)
       IN  IF c.err # None
           THEN /\ pc' = "error"
                /\ err' = c.err
                /\ UNCHANGED <<mode, holding>>
           ELSE /\ pc' = "aggregate"
                /\ mode' = c.mode
                /\ holding' = c.holding
                /\ UNCHANGED err
    /\ UNCHANGED <<input, file, df, column_mapping, missing, result>>

\* lines 138-152: sum and return
Summarize ==
    /\ pc = "aggregate"
    /\ result' = Aggregate(df.columns, df.rows, holding)
    /\ pc' = "done"
    /\ UNCHANGED <<input, file, df, column_mapping, missing, mode, holding, err>>

Next == Read \/ Reconcile \/ ClassifyRows \/ Summarize

SpecEngine == InitEngine /\ [][Next]_vars
SpecAlias == InitAlias /\ [][Next]_vars
SpecHeader == InitHeader /\ [][Next]_vars
SpecReader == InitReader /\ [][Next]_vars
Spec == Init /\ [][Next]_vars

\* what the caller has got once the call is over
Outcome == [status |-> pc, err |-> err, missing |-> missing, result |-> result]

Returned == pc = "done"
Over == pc \in {"done", "error"}

Classified == pc \in {"aggregate", "done"}

Numeric(cell) == Len(cell) = 1 /\ cell[1].k = "num"

\* the file's header has a column written exactly 'Holding period (Days)'
HasDaysColumn ==
    \E j \in 1..Len(input.header) : input.header[j].name = <<Txt(HoldingDaysName)>>

RECURSIVE Total(_, _, _)
Total(rows, amount(_), keep) ==
    IF rows = <<>> THEN 0
    ELSE (IF keep[Len(rows)] THEN amount(rows[Len(rows)]) ELSE 0)
         + Total(SubSeq(rows, 1, Len(rows) - 1), amount, keep)

Gain(r) == r.gain
Proceeds(r) == r.proceeds
Cost(r) == r.cost

----------------------------------------------------------------------------
(* Classification and aggregation, checked under SpecEngine *)

\* C1: once the rows are classified, a row classified from a numeric day count
\* is Long-term at 365 days and Short-term at 364 (Short-term exactly when the
\* count is below 365), and a row classified from two parseable dates is
\* Short-term exactly when the dates lie fewer than 365 days apart.
C1_Boundary ==
    Classified =>
        \A i \in 1..Len(holding) :
            LET r == input.rows[i]
            IN  /\ (mode = "days" /\ Numeric(r.days)) =>
                      /\ r.days[1].n = 365 => holding[i].label = LongTerm
                      /\ r.days[1].n = 364 => holding[i].label = ShortTerm
                      /\ holding[i].label = ShortTerm <=> r.days[1].n < 365
                /\ (mode = "dates" /\ r.gap >= 0) =>
                      /\ r.gap = 365 => holding[i].label = LongTerm
                      /\ r.gap = 364 => holding[i].label = ShortTerm
                      /\ holding[i].label = ShortTerm <=> r.gap < 365

C1_Witness ==
    /\ Returned
    /\ mode = "dates"
    /\ \E i, j \in 1..Len(holding) :
          /\ input.rows[i].gap = 365 /\ holding[i].label = LongTerm
          /\ input.rows[j].gap = 364 /\ holding[j].label = ShortTerm

BadDates(r) == r.acq # <<>> /\ r.gap = -1

\* C3: when the rows are classified by dates and the dates of some row do not
\* parse, no Summary is returned.
C3_BadDatesFail ==
    (Returned /\ mode = "dates") =>
        \A i \in 1..Len(input.rows) : ~BadDates(input.rows[i])

\* C4: when the rows are classified by day count, a row whose day count is
\* missing or not a number is put in neither bucket.
C4_MissingDaysNoBucket ==
    (Classified /\ mode = "days") =>
        \A i \in 1..Len(holding) :
            ~Numeric(input.rows[i].days) => holding[i].label \notin {ShortTerm, LongTerm}

\* C5: the choice between day count and dates is made once for the file: by
\* day count when the column 'Holding period (Days)' exists and some row has a
\* number in it, by dates otherwise; every row is classified from the chosen
\* input.
C5_OneMode ==
    Classified =>
        /\ mode = IF HasDaysColumn /\ \E i \in 1..Len(input.rows) : Numeric(input.rows[i].days)
                  THEN "days" ELSE "dates"
        /\ \A i \in 1..Len(holding) : holding[i].by = mode

C5_Witness ==
    /\ Returned
    /\ mode = "days"
    /\ \E i, j \in 1..Len(holding) :
          /\ ~Numeric(input.rows[i].days) /\ holding[i].by = "days"
          /\ Numeric(input.rows[j].days) /\ holding[j].by = "days"

----------------------------------------------------------------------------
(* Column reconciliation, checked under SpecHeader and SpecAlias *)

Reconciled == pc \notin {"read", "map"}

RequiredNames == {required_columns[k].std : k \in Fields}

\* the required fields for which the file's header has no column
Unmatched ==
    {f \in RequiredNames : ~\E j \in 1..Len(input.header) : input.header[j].field = f}

\* C6: the call fails with the missing-columns error, and returns no Summary,
\* exactly when some required field has no column under any of its aliases; the
\* error names every such field; 'Holding period (Days)' is never among them.
C6_MissingColumns ==
    Reconciled =>
        /\ (err = MissingError) <=> (Unmatched # {})
        /\ Range(missing) = Unmatched
        /\ (Unmatched # {}) => (pc = "error" /\ result = NoResult)
        /\ (Unmatched = {}) => pc # "error"

C6_Witness ==
    /\ pc = "error"
    /\ err = MissingError
    /\ missing = <<"Transaction Type", "Proceeds (USD)">>
    /\ ~HasDaysColumn

\* the input without the columns whose field an earlier column already has
WithoutLater(in) ==
    LET keep == SelectSeq([j \in 1..Len(in.header) |-> j],
                          LAMBDA j : ~\E i \in 1..(j - 1) :
                                        in.header[i].field = in.header[j].field)
    IN  [in EXCEPT !.header = [k \in 1..Len(keep) |-> in.header[keep[k]]]]

\* C7: when two columns of the header match the same required field, the call
\* ends as it does on the same file without the later of the two.
C7_FirstWins ==
    Over => Outcome = calculate_crypto_summary(FileOf(WithoutLater(input)))

\* the input with every header text replaced by the standard name of its field
Canonical(in) ==
    [in EXCEPT !.header =
        [j \in 1..Len(in.header) |->
            [in.header[j] EXCEPT !.name = <<Txt(in.header[j].field)>>]]]

----------------------------------------------------------------------------
(* The reader, checked under SpecReader *)

\* C9: a file without leading lines and without stray delimiters in its cells
\* ends, whichever of comma, tab and semicolon delimits it, as the same data
\* ends when delimited by commas.
C9_AnyDelimiter ==
    (Over /\ input.lead = <<>>
          /\ \A i \in 1..Len(input.rows) : Len(input.rows[i].source) = 1) =>
        Outcome = calculate_crypto_summary(FileOf([input EXCEPT !.delim = Comma]))

\* C10: a comma-delimited file ends, whatever blank or non-tabular lines come
\* before its header, as the same file ends without those lines.
C10_LeadingLines ==
    (Over /\ input.delim = Comma) =>
        Outcome = calculate_crypto_summary(FileOf([input EXCEPT !.lead = <<>>]))

====
